---- MODULE Spec2Model ----
(***************************************************************************)
(* The wasm password-hashing module of src/wasm/lib.rs as a state machine. *)
(*                                                                         *)
(* State: the parameter store PARAMS, the allocator's free memory, the     *)
(* buffers the host holds, the digest the host has stored, and the last    *)
(* exported call with everything the host could observe of it.             *)
(* One action per exported function: alloc, dealloc, setup_params, hash,   *)
(* verify.  The failure bridge (panic_handler, alloc_error_handler) is     *)
(* part of every action that can panic.                                    *)
(*                                                                         *)
(* The trusted libraries are modelled by what the calls in lib.rs rely on: *)
(* argon2's parameter checks and block count, password-hash's PHC string   *)
(* formatting and parsing, base64's unpadded length, alloc's String        *)
(* growth.  Argon2 itself is an injective function of its inputs.          *)
(* Texts are sequences of tokens [t |-> kind, v |-> value]; one token      *)
(* stands for a run of bytes that the code never splits.                   *)
(* Memory is accounted in KiB granules: a live allocation occupies whole   *)
(* granules, an Argon2 block is one granule.                               *)
(***************************************************************************)
EXTENDS Integers, Sequences, FiniteSets, TLC

VARIABLES PARAMS, heapFree, held, kept, call, ret, failures, lastSetup

vars == <<PARAMS, heapFree, held, kept, call, ret, failures, lastSetup>>

----------------------------------------------------------------------------
(* Bounds of the model *)

\* KiB of linear memory the allocator can hand out
HeapKiB == 19457
\* buffers the host holds at once
MaxHeld == 1
\* fatal failures after which the host discards the instance
MaxFailures == 1
\* nested panic_handler frames the stack holds before it is exhausted
StackFrames == 3

----------------------------------------------------------------------------
(* Constants of argon2 and password-hash that lib.rs depends on *)

MIN_M_COST == 8
MIN_T_COST == 1
MIN_P_COST == 1
MAX_P_COST == 16777215
DEFAULT_M_COST == 19456
DEFAULT_T_COST == 2
DEFAULT_P_COST == 1
MIN_SALT_LEN == 8
SALT_MIN_LENGTH == 4
SALT_MAX_LENGTH == 64
V0x10 == 16
V0x13 == 19
\* isize::MAX on wasm32, the largest allocation a Vec may ask for
ISIZE_MAX == 2147483647
\* 2^29: p_cost * 8 is computed in u32 and wraps at this p_cost
U32_DIV_8 == 536870912
KiB == 1024
\* minimum capacity of a growing byte vector
MIN_NON_ZERO_CAP == 8

NULL == 0
Unwritten == -1

None == <<>>
Some(x) == <<x>>

Max(a, b) == IF a >= b THEN a ELSE b

\* granules a request of `size` bytes occupies
Units(size) == (size \div KiB) + (IF size % KiB = 0 THEN 0 ELSE 1)

----------------------------------------------------------------------------
(* argon2::Params *)

\* a faulty variant of the builder's test: eight blocks per lane are not
\* asked for
ParamsBuilder_check_NoLaneTest(m, t, p) ==
  IF m < MIN_M_COST THEN "MemoryTooLittle"
  ELSE IF t < MIN_T_COST THEN "TimeTooSmall"
  ELSE IF p < MIN_P_COST THEN "ThreadsTooFew"
  ELSE IF p > MAX_P_COST THEN "ThreadsTooMany"
  ELSE "ok"

\* ParamsBuilder::build: m_cost < p_cost * 8 is evaluated in u32, so that
\* p_cost * 8 wraps; m < (p mod 2^29) * 8 is m div 8 < p mod 2^29.
ParamsBuilder_check(m, t, p) ==
  IF m < MIN_M_COST THEN "MemoryTooLittle"
  ELSE IF (m \div 8) < (p % U32_DIV_8) THEN "MemoryTooLittle"
  ELSE IF t < MIN_T_COST THEN "TimeTooSmall"
  ELSE IF p < MIN_P_COST THEN "ThreadsTooFew"
  ELSE IF p > MAX_P_COST THEN "ThreadsTooMany"
  ELSE "ok"

\* ParamsBuilder::new().m_cost(m).t_cost(t).p_cost(p).build()
ParamsBuilder_build(m, t, p) ==
  LET e == ParamsBuilder_check(m, t, p) IN
  [ok |-> e = "ok", err |-> e, m_cost |-> m, t_cost |-> t, p_cost |-> p]

\* Params::new(m, t, p, None)
Params_new(m, t, p) ==
  LET e == IF m < MIN_M_COST THEN "MemoryTooLittle"
           ELSE IF (m \div 8) < (p % U32_DIV_8) THEN "MemoryTooLittle"
           ELSE IF t < MIN_T_COST THEN "TimeTooSmall"
           ELSE IF p < MIN_P_COST THEN "ThreadsTooFew"
           ELSE IF p > MAX_P_COST THEN "ThreadsTooMany"
           ELSE "ok" IN
  [ok |-> e = "ok", err |-> e, m_cost |-> m, t_cost |-> t, p_cost |-> p]

\* Params::block_count: 1 KiB blocks, a multiple of 4 * lanes
BlockCount(m, p) ==
  LET memory_blocks == Max(m, 8 * p)
      segment_length == memory_blocks \div (4 * p)
  IN  segment_length * (4 * p)

----------------------------------------------------------------------------
(* base64 STANDARD_NO_PAD and password_hash::Salt *)

\* characters of the unpadded encoding of n bytes
B64Len(n) == (4 * n + 2) \div 3

\* STANDARD_NO_PAD.encode(salt): the text, its length and what it decodes to
B64Encode(bytes) == [chars |-> B64Len(Len(bytes)), bytes |-> bytes]

\* Salt::from_b64: the length bounds (every character of the standard
\* alphabet is in the salt's character set)
Salt_from_b64(b) ==
  [ok |-> b.chars >= SALT_MIN_LENGTH /\ b.chars <= SALT_MAX_LENGTH, salt |-> b]

----------------------------------------------------------------------------
(* PHC strings: password_hash::PasswordHash *)

SEP == [t |-> "$", v |-> 0]
IdTok(name) == [t |-> "id", v |-> name]
VerTok(n) == [t |-> "ver", v |-> n]
ParamsTok(pairs) == [t |-> "params", v |-> pairs]
B64Tok(b) == [t |-> "b64", v |-> b]
OutTok(h) == [t |-> "out", v |-> h]
\* the byte 0
NUL == [t |-> "nul", v |-> 0]
\* a byte that is not UTF-8
BAD == [t |-> "bad", v |-> 255]

Pair(k, n) == [k |-> k, v |-> n]

\* ParamsString::try_from(&Params): m, t, p (no keyid, no data)
ParamsString(params) ==
  <<Pair("m", params.m_cost), Pair("t", params.t_cost), Pair("p", params.p_cost)>>

\* Algorithm::ident / Display
AlgorithmIdent(algorithm) ==
  CASE algorithm = "Argon2i" -> "argon2i"
    [] algorithm = "Argon2d" -> "argon2d"
    [] algorithm = "Argon2id" -> "argon2id"

\* ToString of a PasswordHash: $alg[$v=N][$params][$salt[$hash]]
PasswordHash_to_string(ph) ==
  <<SEP, IdTok(ph.algorithm)>>
  \o (IF Len(ph.version) = 1 THEN <<SEP, VerTok(ph.version[1])>> ELSE <<>>)
  \o (IF Len(ph.params) > 0 THEN <<SEP, ParamsTok(ph.params)>> ELSE <<>>)
  \o (IF Len(ph.salt) = 1
      THEN <<SEP, B64Tok(ph.salt[1])>>
           \o (IF Len(ph.hash) = 1 THEN <<SEP, OutTok(ph.hash[1])>> ELSE <<>>)
      ELSE <<>>)

\* str::split('$'): the fields between the separators, at least one
RECURSIVE SplitFrom(_, _, _)
SplitFrom(s, i, fields) ==
  IF i > Len(s) THEN fields
  ELSE IF s[i].t = "$" THEN SplitFrom(s, i + 1, Append(fields, <<>>))
  ELSE SplitFrom(s, i + 1,
                 [fields EXCEPT ![Len(fields)] = Append(@, s[i])])

Split(s) == SplitFrom(s, 1, << <<>> >>)

\* core::str::from_utf8
from_utf8(bytes) == \A i \in 1..Len(bytes) : bytes[i].t # "bad"

IsOne(field, kind) == Len(field) = 1 /\ field[1].t = kind

\* the field holds '=' somewhere
HasPairDelimiter(field) ==
  \E i \in 1..Len(field) : field[i].t \in {"params", "ver"}

NoHash == [algorithm |-> "", version |-> None, params |-> <<>>,
           salt |-> None, hash |-> None]

\* PasswordHash::new: parse a PHC string
PasswordHash_new(s) ==
  LET fields == Split(s)
      bad == [ok |-> FALSE, ph |-> NoHash]
  IN
  IF Len(s) = 0 THEN bad
  ELSE IF Len(fields[1]) # 0 THEN bad
  ELSE IF Len(fields) < 2 \/ ~IsOne(fields[2], "id") THEN bad
  ELSE
    LET f1 == SubSeq(fields, 3, Len(fields))
        hasVer == Len(f1) > 0 /\ IsOne(f1[1], "ver")
        version == IF hasVer THEN Some(f1[1][1].v) ELSE None
        f2 == IF hasVer THEN Tail(f1) ELSE f1
        hasParams == Len(f2) > 0 /\ HasPairDelimiter(f2[1])
        paramsOk == ~hasParams \/ Len(f2[1]) = 1
        params == IF hasParams /\ paramsOk
                  THEN (IF f2[1][1].t = "ver"
                        THEN <<Pair("v", f2[1][1].v)>>
                        ELSE f2[1][1].v)
                  ELSE <<>>
        f3 == IF hasParams THEN Tail(f2) ELSE f2
        hasSalt == Len(f3) > 0
        saltOk == ~hasSalt
                  \/ (IsOne(f3[1], "b64") /\ Salt_from_b64(f3[1][1].v).ok)
        hasHash == Len(f3) > 1
        hashOk == ~hasHash \/ IsOne(f3[2], "out")
    IN
    IF ~paramsOk \/ ~saltOk \/ ~hashOk \/ Len(f3) > 2 THEN bad
    ELSE [ok |-> TRUE,
          ph |-> [algorithm |-> fields[2][1].v,
                  version |-> version,
                  params |-> params,
                  salt |-> IF hasSalt THEN Some(f3[1][1].v) ELSE None,
                  hash |-> IF hasHash THEN Some(f3[2][1].v) ELSE None]]

\* the value of key k among the pairs, or the default
RECURSIVE ParamOr(_, _, _)
ParamOr(pairs, k, default) ==
  IF Len(pairs) = 0 THEN default
  ELSE IF pairs[Len(pairs)].k = k THEN pairs[Len(pairs)].v
  ELSE ParamOr(SubSeq(pairs, 1, Len(pairs) - 1), k, default)

\* Params::try_from(&PasswordHash): m, t, p from the digest over the
\* builder's defaults, any other name an error, then build()
Params_try_from(ph) ==
  LET known == \A i \in 1..Len(ph.params) : ph.params[i].k \in {"m", "t", "p"}
      m == ParamOr(ph.params, "m", DEFAULT_M_COST)
      t == ParamOr(ph.params, "t", DEFAULT_T_COST)
      p == ParamOr(ph.params, "p", DEFAULT_P_COST)
      built == ParamsBuilder_build(m, t, p)
  IN  IF known THEN built
      ELSE [ok |-> FALSE, err |-> "ParamNameInvalid",
            m_cost |-> m, t_cost |-> t, p_cost |-> p]

----------------------------------------------------------------------------
(* argon2::Argon2 behind PasswordHasher / PasswordVerifier *)

\* the derived key: a function of everything Argon2 mixes in, and of
\* nothing else; an absent secret and an empty one are the same key
Argon2(hasher, password, saltBytes) ==
  [alg |-> hasher.algorithm, ver |-> hasher.version,
   m |-> hasher.params.m_cost, t |-> hasher.params.t_cost,
   p |-> hasher.params.p_cost,
   key |-> IF Len(hasher.secret) = 1 THEN hasher.secret[1] ELSE <<>>,
   salt |-> saltBytes, pwd |-> password]

\* Argon2::new / Argon2::new_with_secret (a secret is never too long on
\* a 32-bit target, so the unwrap cannot fail)
Hasher(secret, algorithm, version, params) ==
  [secret |-> secret, algorithm |-> algorithm, version |-> version,
   params |-> params]

\* PasswordHasher::hash_password: checks the decoded salt, allocates the
\* blocks (with `free` granules left), fills them, encodes the result.
\*   kind: "ok" | "err" | "capacity" | "oom" ; size: the failed request
hash_password(hasher, password, salt, free) ==
  LET blocks == BlockCount(hasher.params.m_cost, hasher.params.p_cost)
      no == [kind |-> "err", size |-> 0, ph |-> NoHash]
  IN
  IF Len(salt.bytes) < MIN_SALT_LEN THEN no
  ELSE IF blocks > ISIZE_MAX \div KiB THEN [no EXCEPT !.kind = "capacity"]
  ELSE IF blocks > free THEN [no EXCEPT !.kind = "oom", !.size = blocks * KiB]
  ELSE [kind |-> "ok", size |-> 0,
        ph |-> [algorithm |-> AlgorithmIdent(hasher.algorithm),
                version |-> Some(hasher.version),
                params |-> ParamsString(hasher.params),
                salt |-> Some(salt),
                hash |-> Some(Argon2(hasher, password, salt.bytes))]]

\* Algorithm::try_from(Ident)
AlgorithmOfIdent(name) ==
  CASE name = "argon2i" -> Some("Argon2i")
    [] name = "argon2d" -> Some("Argon2d")
    [] name = "argon2id" -> Some("Argon2id")
    [] OTHER -> None

\* PasswordVerifier::verify_password: the blanket implementation hashes the
\* password again with the algorithm, version, parameters and salt of the
\* digest and the secret of the hasher, and compares the outputs.
\*   kind: "ok" (equal) | "err" | "capacity" | "oom"
verify_password(hasher, password, ph, free) ==
  LET no == [kind |-> "err", size |-> 0]
      alg == AlgorithmOfIdent(ph.algorithm)
      verOk == Len(ph.version) = 0 \/ ph.version[1] \in {V0x10, V0x13}
      ver == IF Len(ph.version) = 1 THEN ph.version[1] ELSE V0x13
      params == Params_try_from(ph)
  IN
  IF Len(ph.salt) = 0 \/ Len(ph.hash) = 0 THEN no
  ELSE IF Len(alg) = 0 \/ ~verOk \/ ~params.ok THEN no
  ELSE
    LET again == hash_password(Hasher(hasher.secret, alg[1], ver, params),
                               password, ph.salt[1], free)
    IN  IF again.kind = "ok"
        THEN (IF again.ph.hash = ph.hash THEN [no EXCEPT !.kind = "ok"] ELSE no)
        ELSE [kind |-> again.kind, size |-> again.size]

----------------------------------------------------------------------------
(* alloc::fmt::format and the failure bridge (lib.rs 16-31) *)

\* RawVec::grow_amortized: the capacity after making room for `required`
GrowTo(cap, required) ==
  IF required <= cap THEN cap
  ELSE Max(Max(cap * 2, required), MIN_NON_ZERO_CAP)

\* String::with_capacity(0), then one write_str per non-empty chunk
RECURSIVE WriteAll(_, _, _)
WriteAll(chunks, len, cap) ==
  IF Len(chunks) = 0 THEN [len |-> len, cap |-> cap]
  ELSE LET n == Len(Head(chunks)) IN
       WriteAll(Tail(chunks), len + n, GrowTo(cap, len + n))

\* alloc::format!("{info}"): length and capacity of the message
format(info) == WriteAll(info, 0, 0)

\* the name of the source file as the compiler records it
FILE == "src/wasm/lib.rs"

\* Display of PanicInfo: "panicked at <file>:<line>:<col>:\n<message>"
PanicInfo(line, col, message) ==
  <<"panicked at ", FILE, ":", line, ":", col, ":\n">> \o message

\* the message of Result::expect / Result::unwrap on an Err
Expect(text, err) == <<text, ": ", err>>
Unwrap(err) == Expect("called 'Result::unwrap()' on an 'Err' value", err)

\* lib.rs 30: panic!("Memory allocation of {} bytes failed", layout.size())
OomMessage(size) == <<"Memory allocation of ", ToString(size), " bytes failed">>

\* lib.rs 21: the length handed to the host
MessageLen(msg) == msg.cap

\* lib.rs 18-25 and 29-31.  panic_handler formats the message, which
\* allocates; a failed allocation there calls alloc_error_handler, which
\* panics, which enters panic_handler again, until the stack is exhausted.
\*   result: "halted" (callback invoked, then loop {}) | "trapped"
RECURSIVE panic_handler(_, _, _)
panic_handler(info, free, depth) ==
  LET msg == format(info)
      first == GrowTo(0, Len(Head(info)))
  IN
  IF Units(msg.cap) <= free
  THEN [result |-> "halted", cb |-> 1, cbLen |-> MessageLen(msg),
        msgLen |-> msg.len, free |-> free - Units(msg.cap), cause |-> ""]
  ELSE IF depth >= StackFrames
  THEN [result |-> "trapped", cb |-> 0, cbLen |-> 0, msgLen |-> 0,
        free |-> free, cause |-> ""]
  ELSE panic_handler(PanicInfo("30", "3", OomMessage(first)), free, depth + 1)

\* cause: the line of lib.rs the failure started at
alloc_error_handler(size, free) ==
  [panic_handler(PanicInfo("30", "3", OomMessage(size)), free, 1)
     EXCEPT !.cause = "30"]

----------------------------------------------------------------------------
(* What the host observes of one exported call *)

\* result: "returned" | "halted" | "trapped"; cause: the line of lib.rs a
\* failure started at; cb: invocations of the host callback panic(ptr, len),
\* cbLen its len argument, msgLen the bytes of the message; out: what hash
\* or alloc handed back (Unwritten, NULL or an address) and outData the
\* bytes there; matches: what verify wrote; wild: a write went through a
\* pointer that no allocation returned
Returned ==
  [result |-> "returned", cause |-> "", cb |-> 0, cbLen |-> 0, msgLen |-> 0,
   out |-> Unwritten, outData |-> <<>>, matches |-> Unwritten, wild |-> FALSE]

\* a call that ended in the failure bridge
Failed(h) ==
  [Returned EXCEPT !.result = h.result, !.cause = h.cause, !.cb = h.cb,
                   !.cbLen = h.cbLen, !.msgLen = h.msgLen]

\* panic!/expect/unwrap at line:col of lib.rs with `free` granules left
Panic(line, col, message, free) ==
  [panic_handler(PanicInfo(line, col, message), free, 1) EXCEPT !.cause = line]

\* a panic raised inside liballoc ("capacity overflow")
CapacityOverflow(free) ==
  [panic_handler(<<"panicked at ", "alloc/src/raw_vec.rs", ":", "000", ":",
                   "0", ":\n", "capacity overflow">>, free, 1)
     EXCEPT !.cause = "raw_vec"]

----------------------------------------------------------------------------
(* lib.rs 33-45: alloc and dealloc *)

\* the address the allocator hands out next
FreshAddr(blocks) ==
  CHOOSE a \in 1..(Cardinality(blocks) + 1) :
    /\ \A b \in blocks : b.addr # a
    /\ \A c \in 1..(a - 1) : \E b \in blocks : b.addr = c

\* alloc::alloc::alloc(layout): an address, or null when the request does
\* not fit; it never calls the allocation error handler
alloc(size, free, blocks) ==
  IF Units(size) <= free THEN FreshAddr(blocks) ELSE NULL

----------------------------------------------------------------------------
(* lib.rs 56-99: PARAMS and setup_params *)

AllParams(algorithm, version, m_cost, t_cost, p_cost) ==
  [algorithm |-> algorithm, version |-> version,
   m_cost |-> m_cost, t_cost |-> t_cost, p_cost |-> p_cost]

\* lib.rs 56-62
DefaultParams ==
  AllParams("Argon2id", V0x13, DEFAULT_M_COST, DEFAULT_T_COST, DEFAULT_P_COST)

\* lib.rs 72-77
MatchAlgorithm(tag) ==
  CASE tag = "i___" -> Some("Argon2i")
    [] tag = "d___" -> Some("Argon2d")
    [] tag = "id__" -> Some("Argon2id")
    [] OTHER -> None

\* a faulty variant of the version match: the last arm lets every number
\* through
MatchVersion_AnyNumber(version) ==
  CASE version = 16 -> Some(V0x10)
    [] version = 19 -> Some(V0x13)
    [] OTHER -> Some(version)

\* lib.rs 79-83
MatchVersion(version) ==
  CASE version = 16 -> Some(V0x10)
    [] version = 19 -> Some(V0x13)
    [] OTHER -> None

\* lib.rs 92-98: the record written to PARAMS
NewParams(algorithm, version, params) ==
  AllParams(algorithm, version, params.m_cost, params.t_cost, params.p_cost)

\* lib.rs 65-99
setup_params(algorithm, version, m_cost, t_cost, p_cost, store, free) ==
  LET alg == MatchAlgorithm(algorithm)
      ver == MatchVersion(version)
      params == ParamsBuilder_build(m_cost, t_cost, p_cost)
      fail(h) == [ret |-> Failed(h), free |-> h.free, store |-> store]
  IN
  IF Len(alg) = 0 THEN fail(Panic("76", "10", <<"Invalid algorithm">>, free))
  ELSE IF Len(ver) = 0 THEN fail(Panic("82", "10", <<"Invalid version">>, free))
  ELSE IF ~params.ok
  THEN fail(Panic("90", "6",
                  Expect("Invalid parameter memory, time, or paralellism",
                         params.err), free))
  ELSE [ret |-> Returned, free |-> free,
        store |-> NewParams(alg[1], ver[1], params)]

----------------------------------------------------------------------------
(* lib.rs 102-146: hash *)

\* lib.rs 115-119 and 165-169: a null pointer is no secret
SecretOf(secret) == IF secret.ptr # NULL THEN Some(secret.bytes) ELSE None

\* a faulty variant of line 126: the library's default costs, whatever the
\* store holds
HashParams_Default(store) ==
  Params_new(DEFAULT_M_COST, DEFAULT_T_COST, DEFAULT_P_COST)

\* lib.rs 125-126: the parameters hash builds its hasher from
HashParams(store) == Params_new(store.m_cost, store.t_cost, store.p_cost)

\* a faulty variant of lines 137-138: no 0 is pushed
DigestBytes_NoTerminator(digest) == digest

\* lib.rs 137-138: the digest's bytes and a 0
DigestBytes(digest) == Append(digest, NUL)

\* lib.rs 140: the size hash asks the allocator for
OutputSize(bytes) == Len(bytes)

\* lib.rs 141-143: the bytes copied to the output buffer
CopyLoop(bytes) == [i \in 1..Len(bytes) |-> bytes[i]]

\* The outcomes of hash(password, salt, secret, output_ptr) with `free`
\* granules left and `blocks` live.  A set: writing through a null
\* pointer is undefined, the build may let it pass or trap.
hash(password, salt, secret, store, free, blocks) ==
  LET fail(h) == {[ret |-> Failed(h), free |-> h.free, buf |-> None,
                   digest |-> None]}
      encoded == B64Encode(salt)
      free1 == free - 1
      s == Salt_from_b64(encoded)
      params == HashParams(store)
      hasher == Hasher(SecretOf(secret), store.algorithm, store.version, params)
      g == hash_password(hasher, password, s.salt, free1)
      digest == PasswordHash_to_string(g.ph)
      free2 == free1 - 1
      bytes == DigestBytes(digest)
      digest_output == alloc(OutputSize(bytes), free2, blocks)
  IN
  IF free < 1 THEN fail(alloc_error_handler(encoded.chars, free))
  ELSE IF ~s.ok
  THEN fail(Panic("123", "36",
                  Expect("Got invalid salt", "SaltInvalid(TooShort)"), free1))
  ELSE IF ~params.ok THEN fail(Panic("126", "66", Unwrap(params.err), free1))
  ELSE IF g.kind = "err"
  THEN fail(Panic("134", "61",
                  Expect("Failed to hash password", "SaltInvalid(TooShort)"),
                  free1))
  ELSE IF g.kind = "capacity" THEN fail(CapacityOverflow(free1))
  ELSE IF g.kind = "oom" THEN fail(alloc_error_handler(g.size, free1))
  ELSE IF free1 < 1 THEN fail(alloc_error_handler(Len(digest), free1))
  ELSE IF digest_output = NULL
  THEN {[ret |-> [Returned EXCEPT !.out = NULL, !.wild = TRUE],
         free |-> free, buf |-> None, digest |-> Some(digest)],
        [ret |-> [Returned EXCEPT !.result = "trapped", !.wild = TRUE],
         free |-> free2, buf |-> None, digest |-> None]}
  ELSE {[ret |-> [Returned EXCEPT !.out = digest_output,
                                  !.outData = CopyLoop(bytes)],
         free |-> free - Units(OutputSize(bytes)),
         buf |-> Some([addr |-> digest_output, size |-> OutputSize(bytes)]),
         digest |-> Some(digest)]}

----------------------------------------------------------------------------
(* lib.rs 149-195: verify *)

\* a faulty variant of lines 179-184: the arm for 0x10 is missing
MatchDigestVersion_No0x10(version) ==
  IF Len(version) = 0 THEN Some(V0x13)
  ELSE IF version[1] = 19 THEN Some(V0x13)
  ELSE None

\* lib.rs 179-184
MatchDigestVersion(version) ==
  IF Len(version) = 0 THEN Some(V0x13)
  ELSE IF version[1] = 16 THEN Some(V0x10)
  ELSE IF version[1] = 19 THEN Some(V0x13)
  ELSE None

\* a faulty variant of lines 186-192: the password is hashed again with
\* what the store holds, not with what the digest embeds
PasswordValid_FromStore(secret, algorithm, version, params, password, ph, store, free) ==
  verify_password(Hasher(secret, store.algorithm, store.version, params),
                  password,
                  [ph EXCEPT !.algorithm = AlgorithmIdent(store.algorithm),
                             !.version = Some(store.version),
                             !.params = ParamsString(store)],
                  free)

\* lib.rs 186-192: the hasher is built from what the digest embeds; the
\* store is in reach of the code and not read
PasswordValid(secret, algorithm, version, params, password, ph, store, free) ==
  verify_password(Hasher(secret, algorithm, version, params), password, ph, free)

\* a faulty variant of line 194: 1 whatever the comparison said
MatchesValue_Always1(v) == 1

\* lib.rs 194: the value written to *matches
MatchesValue(v) == IF v.kind = "ok" THEN 1 ELSE 0

verify(digest, password, secret, store, free) ==
  LET fail(h) == [ret |-> Failed(h), free |-> h.free]
      parsed == PasswordHash_new(digest)
      ph == parsed.ph
      params == Params_try_from(ph)
      alg == AlgorithmOfIdent(ph.algorithm)
      ver == MatchDigestVersion(ph.version)
      v == PasswordValid(SecretOf(secret), alg[1], ver[1], params, password,
                         ph, store, free)
  IN
  IF ~from_utf8(digest)
  THEN fail(Panic("162", "45", Expect("Invalid hash digest", "Utf8Error"), free))
  ELSE IF ~parsed.ok
  THEN fail(Panic("171", "40",
                  Expect("Invalid digest format", "PhcStringField"), free))
  ELSE IF ~params.ok
  THEN fail(Panic("172", "52",
                  Expect("Invalid digest parameters", params.err), free))
  ELSE IF Len(alg) = 0
  THEN fail(Panic("177", "10", <<"Invalid algorithm">>, free))
  ELSE IF Len(ver) = 0
  THEN fail(Panic("183", "16",
                  <<"Invalid ", AlgorithmIdent(alg[1]), " version">>, free))
  ELSE IF v.kind = "capacity" THEN fail(CapacityOverflow(free))
  ELSE IF v.kind = "oom" THEN fail(alloc_error_handler(v.size, free))
  ELSE [ret |-> [Returned EXCEPT !.matches = MatchesValue(v)], free |-> free]

----------------------------------------------------------------------------
(* The host's inputs *)

\* passwords: hash is given the first, verify either
Password1 == <<1>>
Passwords == {Password1, <<2>>}

\* no secret, an empty secret, a secret
NoSecret == [ptr |-> NULL, bytes |-> <<>>]
EmptySecret == [ptr |-> 1, bytes |-> <<>>]
Secret7 == [ptr |-> 1, bytes |-> <<7>>]
Secrets == {NoSecret, EmptySecret, Secret7}

\* salts of 2 bytes (3 characters: too short a text), 4 bytes (a valid
\* text, too short for Argon2), 8 bytes and 49 bytes (66 characters)
SaltOfLen(n) == [i \in 1..n |-> i]

\* arguments of hash: (password, salt, secret)
HashInputs ==
  {<<Password1, SaltOfLen(8), s>> : s \in {NoSecret, Secret7}}
  \cup {<<Password1, SaltOfLen(n), NoSecret>> : n \in {2, 4, 49}}

\* arguments of setup_params: each valid tag and version, valid and
\* rejected costs
SetupInputs ==
  { <<"i___", 16, 8, 1, 1>>,
    <<"d___", 19, 16, 2, 2>>,
    <<"id__", 19, DEFAULT_M_COST, DEFAULT_T_COST, DEFAULT_P_COST>>,
    <<"xx__", 19, 8, 1, 1>>,
    <<"i___", 17, 8, 1, 1>>,
    <<"d___", 16, 7, 1, 1>>,
    <<"d___", 16, 8, 1, 2>>,
    <<"d___", 16, 8, 0, 1>>,
    <<"d___", 16, 8, 1, 0>>,
    <<"d___", 16, ISIZE_MAX, 1, MAX_P_COST + 1>>,
    <<"d___", 16, 8, 1, U32_DIV_8>> }

\* sizes the host asks alloc for: a few bytes, all of the heap but one
\* KiB, 1 GiB
AllocSizes == {16, (HeapKiB - 1) * KiB, KiB * KiB * KiB}

\* a digest with the token of `kind` replaced
ReplaceTok(text, kind, tok) ==
  [i \in 1..Len(text) |-> IF text[i].t = kind THEN tok ELSE text[i]]

\* a digest without the field of `kind` and the separator before it
RECURSIVE DropField(_, _)
DropField(text, kind) ==
  IF Len(text) < 2 THEN text
  ELSE IF text[1].t = "$" /\ text[2].t = kind THEN SubSeq(text, 3, Len(text))
  ELSE <<Head(text)>> \o DropField(Tail(text), kind)

\* digests the host passes to verify: the stored one as it is, and edited
DigestVariants ==
  {"same", "nul", "noprefix", "alg", "ver", "nover", "costs", "name",
   "utf8", "nohash", "salt"}

DigestInput(variant, text) ==
  CASE variant = "same" -> text
    [] variant = "nul" -> Append(text, NUL)
    [] variant = "noprefix" -> Tail(text)
    [] variant = "alg" -> ReplaceTok(text, "id", IdTok("scrypt"))
    [] variant = "ver" -> ReplaceTok(text, "ver", VerTok(17))
    [] variant = "nover" -> DropField(text, "ver")
    [] variant = "costs" ->
         ReplaceTok(text, "params",
                    ParamsTok(<<Pair("m", 1), Pair("t", 2), Pair("p", 1)>>))
    [] variant = "name" -> ReplaceTok(text, "params", ParamsTok(<<Pair("x", 5)>>))
    [] variant = "utf8" -> Append(text, BAD)
    [] variant = "nohash" -> DropField(text, "out")
    [] variant = "salt" ->
         ReplaceTok(text, "b64", B64Tok(B64Encode(SaltOfLen(4))))

\* digests of a host that has stored none
FixedDigests == { <<>>, <<IdTok("argon2id")>>, <<BAD>> }

\* arguments of verify: (what the digest is, digest, password, secret).
\* The stored digest with every password and secret; each edited digest
\* with the password and secret it was made with, and those that parse
\* with the other password as well.
VerifyInputs(stored) ==
  IF Len(stored) = 0
  THEN {<<"fixed", d, Password1, NoSecret>> : d \in FixedDigests}
  ELSE {<<"same", stored[1].text, pw, s>> : pw \in Passwords, s \in Secrets}
       \cup {<<v, DigestInput(v, stored[1].text), pw, stored[1].secret>> :
               v \in {"nover", "nohash", "salt", "costs"}, pw \in Passwords}
       \cup {<<v, DigestInput(v, stored[1].text), stored[1].password,
               stored[1].secret>> :
               v \in DigestVariants \ {"same", "nover", "nohash", "salt", "costs"}}

----------------------------------------------------------------------------
(* The state machine *)

Init ==
  /\ PARAMS = DefaultParams
  /\ heapFree = HeapKiB
  /\ held = {}
  /\ kept = None
  /\ call = [op |-> "init", args |-> <<>>]
  /\ ret = Returned
  /\ failures = 0
  /\ lastSetup = <<>>

Alive == failures < MaxFailures

Count(r) == IF r.result = "returned" THEN failures ELSE failures + 1

\* alloc(size)
Alloc ==
  /\ Alive
  /\ \E size \in AllocSizes :
       LET ptr == alloc(size, heapFree, held) IN
       /\ ptr # NULL => Cardinality(held) < MaxHeld
       /\ call' = [op |-> "alloc", args |-> <<size>>]
       /\ ret' = [Returned EXCEPT !.out = ptr]
       /\ held' = IF ptr = NULL THEN held
                  ELSE held \cup {[addr |-> ptr, size |-> size]}
       /\ heapFree' = IF ptr = NULL THEN heapFree ELSE heapFree - Units(size)
  /\ UNCHANGED <<PARAMS, kept, failures, lastSetup>>

\* dealloc(ptr, size) of a buffer the host holds, with its size
Dealloc ==
  /\ Alive
  /\ \E b \in held :
       /\ call' = [op |-> "dealloc", args |-> <<b.addr, b.size>>]
       /\ ret' = Returned
       /\ held' = held \ {b}
       /\ heapFree' = heapFree + Units(b.size)
  /\ UNCHANGED <<PARAMS, kept, failures, lastSetup>>

\* setup_params(algorithm, version, m_cost, t_cost, p_cost)
SetupParams ==
  /\ Alive
  /\ \E a \in SetupInputs :
       \E o \in {setup_params(a[1], a[2], a[3], a[4], a[5], PARAMS, heapFree)} :
       /\ call' = [op |-> "setup_params", args |-> a]
       /\ ret' = o.ret
       /\ PARAMS' = o.store
       /\ heapFree' = o.free
       /\ failures' = Count(o.ret)
       /\ lastSetup' = IF o.ret.result = "returned" THEN a ELSE lastSetup
  /\ UNCHANGED <<held, kept>>

\* hash(password, salt, secret, output_ptr); the host stores the first
\* digest it is given, to verify it later
Hash ==
  /\ Alive
  /\ \E a \in HashInputs :
       \E o \in hash(a[1], a[2], a[3], PARAMS, heapFree, held) :
         /\ Len(o.buf) = 1 => Cardinality(held) < MaxHeld
         /\ call' = [op |-> "hash", args |-> a]
         /\ ret' = o.ret
         /\ heapFree' = o.free
         /\ held' = IF Len(o.buf) = 1 THEN held \cup {o.buf[1]} ELSE held
         /\ failures' = Count(o.ret)
         /\ kept' = IF Len(kept) = 0 /\ Len(o.digest) = 1
                    THEN Some([text |-> o.digest[1], password |-> a[1],
                               secret |-> a[3]])
                    ELSE kept
  /\ UNCHANGED <<PARAMS, lastSetup>>

\* verify(digest, password, secret, matches)
Verify ==
  /\ Alive
  /\ \E a \in VerifyInputs(kept) :
       \E o \in {verify(a[2], a[3], a[4], PARAMS, heapFree)} :
       /\ call' = [op |-> "verify", args |-> a]
       /\ ret' = o.ret
       /\ heapFree' = o.free
       /\ failures' = Count(o.ret)
  /\ UNCHANGED <<PARAMS, held, kept, lastSetup>>

Next == Alloc \/ Dealloc \/ SetupParams \/ Hash \/ Verify

Spec == Init /\ [][Next]_vars

----------------------------------------------------------------------------
(* Reading the last call *)

IsSetup == call.op = "setup_params"
IsHash == call.op = "hash"
IsVerify == call.op = "verify"

\* the arguments of the last verify call
VDigest == call.args[2]
VPassword == call.args[3]
VSecret == call.args[4]

\* the token of `kind` in a text that holds one
TokOf(text, kind) == text[CHOOSE i \in 1..Len(text) : text[i].t = kind]

\* the 1 KiB blocks Argon2 needs for the costs a digest embeds
EmbeddedBlocks(text) ==
  LET pairs == TokOf(text, "params").v IN BlockCount(pairs[1].v, pairs[3].v)

\* the store holds what the digest embeds
StoreIsEmbedded(text) ==
  /\ TokOf(text, "id").v = AlgorithmIdent(PARAMS.algorithm)
  /\ TokOf(text, "ver").v = PARAMS.version
  /\ TokOf(text, "params").v = ParamsString(PARAMS)

\* the last call was verify of the stored digest, unedited, with the
\* password and the secret it was made with
VerifyOfStored ==
  /\ IsVerify
  /\ Len(kept) = 1
  /\ call.args[1] = "same"
  /\ VPassword = kept[1].password
  /\ VSecret = kept[1].secret

\* the free memory before the last call: a reported failure leaks the
\* message, one granule
FreeBefore == heapFree + ret.cb

\* the last call failed in the allocation error handler, the blocks of the
\* digest did not fit in the free memory, and *matches was not written
OutOfMemory(text) ==
  /\ ret.result # "returned"
  /\ ret.cause = "30"
  /\ ret.matches = Unwritten
  /\ EmbeddedBlocks(text) > FreeBefore

----------------------------------------------------------------------------
(* C1 *)

\* C1 as stated: verify of a digest that hash returned, with the same
\* password and secret, writes 1 to *matches.
C1_RoundTripAlways == VerifyOfStored => ret.matches = 1

\* C1 amended: verify of a digest that hash returned, with the same password
\* and secret, writes 1 to *matches, unless the memory for Argon2's blocks
\* cannot be allocated: then the call is a fatal failure and *matches is not
\* written.  It never writes 0.
C1_RoundTrip ==
  VerifyOfStored => (\/ ret.result = "returned" /\ ret.matches = 1
                     \/ OutOfMemory(kept[1].text))

\* a digest made with a secret under a version 0x10 store was verified
C1_Witness ==
  /\ VerifyOfStored
  /\ ret.matches = 1
  /\ kept[1].secret = Secret7
  /\ TokOf(kept[1].text, "ver").v = V0x10

----------------------------------------------------------------------------
(* C2 *)

\* the stores setup_params can leave
ValidStores ==
  {DefaultParams, AllParams("Argon2i", V0x10, 8, 1, 1),
   AllParams("Argon2d", V0x13, 16, 2, 2)}

\* C2 as stated: after the store was changed, verify of a digest made under
\* the earlier store, with the same password and secret, still writes 1.
C2_EmbeddedAlways ==
  (VerifyOfStored /\ ~StoreIsEmbedded(kept[1].text)) => ret.matches = 1

\* C2 amended: after the store was changed, verify of a digest made under
\* the earlier store still writes 1, unless the memory for Argon2's blocks
\* cannot be allocated, which is a fatal failure; and what verify does
\* depends on its arguments and the free memory only: it is the same under
\* every store.
C2_Embedded ==
  /\ (VerifyOfStored /\ ~StoreIsEmbedded(kept[1].text))
       => (\/ ret.result = "returned" /\ ret.matches = 1
           \/ OutOfMemory(kept[1].text))
  /\ IsVerify =>
       \A store \in ValidStores :
         verify(VDigest, VPassword, VSecret, store, FreeBefore).ret = ret

\* a digest made under another store was verified
C2_Witness ==
  /\ VerifyOfStored
  /\ ~StoreIsEmbedded(kept[1].text)
  /\ lastSetup # <<>>
  /\ ret.matches = 1

----------------------------------------------------------------------------
(* C3 *)

\* the arguments are ones setup_params accepts
SetupValid(a) ==
  /\ a[1] \in {"i___", "d___", "id__"}
  /\ a[2] \in {16, 19}
  /\ ParamsBuilder_build(a[3], a[4], a[5]).ok

\* the store the arguments ask for
SetupAsked(a) ==
  AllParams(CASE a[1] = "i___" -> "Argon2i"
              [] a[1] = "d___" -> "Argon2d"
              [] a[1] = "id__" -> "Argon2id",
            a[2], a[3], a[4], a[5])

\* C3: a setup_params call with an unknown tag, a version other than 0x10
\* and 0x13, or costs the builder rejects does not return and leaves the
\* five fields of PARAMS as they were; a call with valid arguments returns
\* and PARAMS holds all five values asked for.
C3_AllOrNothing ==
  [][call'.op = "setup_params" =>
       IF SetupValid(call'.args)
       THEN ret'.result = "returned" /\ PARAMS' = SetupAsked(call'.args)
       ELSE ret'.result # "returned" /\ PARAMS' = PARAMS]_vars

\* a rejected call after an accepted one: the accepted store is in place
C3_Witness ==
  /\ IsSetup
  /\ ret.result # "returned"
  /\ lastSetup # <<>>
  /\ PARAMS = SetupAsked(lastSetup)
  /\ PARAMS # DefaultParams

----------------------------------------------------------------------------
(* C4 *)

\* C4: every call that does not return invoked the host callback once.
C4_CallbackOnce == ret.result # "returned" => ret.cb = 1

----------------------------------------------------------------------------
(* C5 *)

\* C5: no call hands a null pointer to the host and no call writes through
\* a pointer that was not allocated.
C5_NoNull ==
  /\ call.op \in {"alloc", "hash"} => ret.out # NULL
  /\ ~ret.wild

----------------------------------------------------------------------------
(* C6 *)

\* a digest that is UTF-8, parses, names a known algorithm and carries
\* version 0x10, 0x13 or none
WellFormed(d) ==
  /\ from_utf8(d)
  /\ PasswordHash_new(d).ok
  /\ PasswordHash_new(d).ph.algorithm \in {"argon2i", "argon2d", "argon2id"}
  /\ \/ Len(PasswordHash_new(d).ph.version) = 0
     \/ PasswordHash_new(d).ph.version[1] \in {16, 19}

\* the bytes of a secret; none for a null pointer
SecretBytes(secret) == IF secret.ptr # NULL THEN secret.bytes ELSE <<>>

\* C6 as stated: verify of a well-formed digest with a password or a secret
\* other than the one it was made with returns, writes 0 and does not invoke
\* the callback; verify of any other digest is a fatal failure that does
\* not write *matches.
C6_MismatchOrFatal ==
  (IsVerify /\ Len(kept) = 1) =>
    IF WellFormed(VDigest)
    THEN (VPassword # kept[1].password \/ VSecret # kept[1].secret)
           => (ret.result = "returned" /\ ret.matches = 0 /\ ret.cb = 0)
    ELSE ret.result # "returned" /\ ret.matches = Unwritten

\* C6 amended: verify of a well-formed digest whose embedded costs the
\* library accepts, with a password other than the one it was made with or
\* a secret of other bytes (no secret and an empty secret are the same),
\* returns, writes 0 and does not invoke the callback, unless the memory for
\* Argon2's blocks cannot be allocated; a digest that is not well-formed or
\* embeds costs the library rejects is a fatal failure; no fatal failure
\* writes *matches.
C6_Mismatch ==
  IsVerify =>
    /\ ret.result # "returned" => ret.matches = Unwritten
    /\ IF WellFormed(VDigest) /\ Params_try_from(PasswordHash_new(VDigest).ph).ok
       THEN Len(kept) = 1
            /\ (\/ VPassword # kept[1].password
                \/ SecretBytes(VSecret) # SecretBytes(kept[1].secret))
            => (\/ ret.result = "returned" /\ ret.matches = 0 /\ ret.cb = 0
                \/ OutOfMemory(kept[1].text))
       ELSE ret.result # "returned"

\* the stored digest was verified with another password
C6_Witness ==
  /\ IsVerify
  /\ Len(kept) = 1
  /\ call.args[1] = "same"
  /\ VPassword # kept[1].password
  /\ ret.result = "returned"
  /\ ret.matches = 0

----------------------------------------------------------------------------
(* C7 *)

\* the configuration in force: the last accepted arguments, or the default
Configured ==
  IF lastSetup = <<>> THEN DefaultParams ELSE SetupAsked(lastSetup)

\* the digest text names this configuration
Carries(text, config) ==
  /\ TokOf(text, "id").v = (CASE config.algorithm = "Argon2i" -> "argon2i"
                              [] config.algorithm = "Argon2d" -> "argon2d"
                              [] config.algorithm = "Argon2id" -> "argon2id")
  /\ TokOf(text, "ver").v = config.version
  /\ TokOf(text, "params").v =
       <<Pair("m", config.m_cost), Pair("t", config.t_cost),
         Pair("p", config.p_cost)>>

\* C7: the digest of a hash call that returned names the algorithm, version
\* and costs of the most recent setup_params call that returned (the
\* default if none did), and hash and verify leave PARAMS as it was.
C7_CurrentParams ==
  [][/\ call'.op \in {"hash", "verify"} => PARAMS' = PARAMS
     /\ (call'.op = "hash" /\ ret'.result = "returned")
          => Carries(ret'.outData, Configured')]_vars

\* hash returned a digest under a store that setup_params wrote
C7_Witness ==
  /\ IsHash
  /\ ret.result = "returned"
  /\ lastSetup # <<>>
  /\ lastSetup[1] = "i___"
  /\ TokOf(ret.outData, "id").v = "argon2i"

----------------------------------------------------------------------------
(* C8 *)

\* C8: a hash call that returned wrote to *output_ptr the address of a
\* buffer that was not live before, whose size is the digest's length plus
\* one and whose bytes are the digest followed by one 0; a hash call that
\* did not return did not write *output_ptr.
C8_OutputBuffer ==
  [][call'.op = "hash" =>
       IF ret'.result = "returned"
       THEN /\ ret'.out # NULL /\ ret'.out # Unwritten
            /\ \A b \in held : b.addr # ret'.out
            /\ \E b \in held' :
                 /\ b.addr = ret'.out
                 /\ b.size = Len(ret'.outData)
            /\ Len(ret'.outData) >= 2
            /\ ret'.outData[Len(ret'.outData)] = NUL
            /\ \A i \in 1..(Len(ret'.outData) - 1) : ret'.outData[i].t # "nul"
            /\ PasswordHash_new(SubSeq(ret'.outData, 1, Len(ret'.outData) - 1)).ok
            /\ kept' # kept =>
                 kept'[1].text = SubSeq(ret'.outData, 1, Len(ret'.outData) - 1)
       ELSE ret'.out = Unwritten]_vars

\* hash returned a buffer
C8_Witness ==
  /\ IsHash
  /\ ret.result = "returned"
  /\ ret.out >= 1
  /\ ret.outData[Len(ret.outData)] = NUL

----------------------------------------------------------------------------
(* C9 *)

\* C9: the length the callback receives is the number of bytes of the
\* message.
C9_LengthIsMessageLength == ret.cb = 1 => ret.cbLen = ret.msgLen

----------------------------------------------------------------------------
(* C10 *)

\* C10: Params::new accepts the stored costs in every reachable state, and
\* no hash call fails at the unwrap of line 126.
C10_StoreValid ==
  /\ Params_new(PARAMS.m_cost, PARAMS.t_cost, PARAMS.p_cost).ok
  /\ IsHash => ret.cause # "126"

\* hash built its parameters from a store that setup_params wrote
C10_Witness ==
  /\ IsHash
  /\ ret.result = "returned"
  /\ lastSetup # <<>>
  /\ PARAMS = SetupAsked(lastSetup)
  /\ PARAMS # DefaultParams

====
